---- MODULE Spec2Model ----
(***************************************************************************)
(* The push/pull toolbar button of app/src/ui/toolbar/push-pull-button.tsx *)
(*                                                                         *)
(* A value that may be null or undefined in the source is a sequence of    *)
(* length at most one: <<>> is null/undefined, <<v>> is the value v.       *)
(* A rendered ToolbarButton is the record of the props it was given, plus  *)
(* `builder`, the function that produced it.                               *)
(***************************************************************************)
EXTENDS Naturals, Sequences, FiniteSets, TLC

VARIABLES props, element, dispatched, enablePullWithRebase

vars == <<props, element, dispatched, enablePullWithRebase>>

(* ---------------------------- bounds ----------------------------------- *)

MaxCount == 2

(* ---------------------------- data model ------------------------------- *)

null == <<>>

TipState == {"Valid", "Unborn", "Detached"}

IAheadBehind == [ahead : 0..MaxCount, behind : 0..MaxCount]

Progress ==
  [title : {"Pushing to origin"},
   description : {null, <<"">>, <<"Writing objects">>},
   value : {0}]

RemoteNames == {"origin"}

Dates == {"2019-06-01"}

Repository == [gitHubRepository : {null, <<"desktop/desktop">>}]

(* The values each prop ranges over.                                       *)
PropValues ==
  [aheadBehind |-> {null} \cup {<<ab>> : ab \in IAheadBehind},
   remoteName |-> {null} \cup {<<r>> : r \in RemoteNames},
   networkActionInProgress |-> BOOLEAN,
   lastFetched |-> {null} \cup {<<d>> : d \in Dates},
   progress |-> {null} \cup {<<p>> : p \in Progress},
   repository |-> Repository,
   tipState |-> TipState,
   pullWithRebase |-> {null, <<TRUE>>, <<FALSE>>},
   rebaseInProgress |-> BOOLEAN]

IPushPullButtonProps ==
  [aheadBehind : PropValues.aheadBehind,
   remoteName : PropValues.remoteName,
   networkActionInProgress : PropValues.networkActionInProgress,
   lastFetched : PropValues.lastFetched,
   progress : PropValues.progress,
   repository : PropValues.repository,
   tipState : PropValues.tipState,
   pullWithRebase : PropValues.pullWithRebase,
   rebaseInProgress : PropValues.rebaseInProgress]

(* The props a ToolbarButton is given; a prop the JSX does not pass is     *)
(* null, `disabled` is FALSE when it is not passed.                        *)
ToolbarButton(builder, title, description, icon, disabled, onClick, children) ==
  [builder |-> builder,
   title |-> title,
   description |-> description,
   progressValue |-> null,
   className |-> "push-pull-button",
   icon |-> icon,
   iconClassName |-> null,
   style |-> "Subtitle",
   tooltip |-> null,
   disabled |-> disabled,
   onClick |-> onClick,
   children |-> children]

(* ---------------------------- helpers ---------------------------------- *)

renderAheadBehind_inProgress(progress, aheadBehind) ==
  IF aheadBehind = null
  THEN null
  ELSE LET ahead == aheadBehind[1].ahead
           behind == aheadBehind[1].behind
       IN IF ahead = 0 /\ behind = 0
          THEN null
          ELSE <<(IF ahead > 0 THEN <<[key |-> "ahead", count |-> ahead]>> ELSE <<>>)
                 \o (IF behind > 0 THEN <<[key |-> "behind", count |-> behind]>> ELSE <<>>)>>

(* The badge: null, or <<content>> where content is the list of spans.     *)
renderAheadBehind(progress, aheadBehind) ==
  IF aheadBehind = null \/ progress # null
  THEN null
  ELSE LET ahead == aheadBehind[1].ahead
           behind == aheadBehind[1].behind
       IN IF ahead = 0 /\ behind = 0
          THEN null
          ELSE <<(IF ahead > 0 THEN <<[key |-> "ahead", count |-> ahead]>> ELSE <<>>)
                 \o (IF behind > 0 THEN <<[key |-> "behind", count |-> behind]>> ELSE <<>>)>>

renderLastFetched(lastFetched) ==
  IF lastFetched # null
  THEN <<"Last fetched ", "RelativeTime", lastFetched[1]>>
  ELSE <<"Never fetched">>

(* ---------------------------- builders --------------------------------- *)

progressButton_clickable(progress, networkActionInProgress, aheadBehind) ==
  [ToolbarButton("progressButton",
                 progress.title,
                 IF progress.description # null /\ progress.description # <<"">>
                 THEN progress.description ELSE <<"Hang on...">>,
                 "sync", FALSE, <<"push">>,
                 renderAheadBehind(<<progress>>, aheadBehind))
     EXCEPT !.progressValue = <<progress.value>>,
            !.iconClassName = <<IF networkActionInProgress THEN "spin" ELSE "">>,
            !.tooltip = progress.description]

progressButton(progress, networkActionInProgress, aheadBehind) ==
  [ToolbarButton("progressButton",
                 progress.title,
                 IF progress.description # null /\ progress.description # <<"">>
                 THEN progress.description ELSE <<"Hang on...">>,
                 "sync", TRUE, null,
                 renderAheadBehind(<<progress>>, aheadBehind))
     EXCEPT !.progressValue = <<progress.value>>,
            !.iconClassName = <<IF networkActionInProgress THEN "spin" ELSE "">>,
            !.tooltip = progress.description]

publishRepositoryButton(onClick) ==
  ToolbarButton("publishRepositoryButton", "Publish repository",
                <<"Publish this repository to GitHub">>,
                "cloudUpload", FALSE, <<onClick>>, null)

unbornRepositoryButton_enabled ==
  ToolbarButton("unbornRepositoryButton", "Publish branch",
                <<"Cannot publish unborn HEAD">>,
                "cloudUpload", FALSE, null, null)

unbornRepositoryButton ==
  ToolbarButton("unbornRepositoryButton", "Publish branch",
                <<"Cannot publish unborn HEAD">>,
                "cloudUpload", TRUE, null, null)

detachedHeadButton_notDisabled(rebaseInProgress) ==
  ToolbarButton("detachedHeadButton", "Publish branch",
                <<IF rebaseInProgress THEN "Rebase in progress"
                  ELSE "Cannot publish detached HEAD">>,
                "cloudUpload", FALSE, null, null)

detachedHeadButton(rebaseInProgress) ==
  ToolbarButton("detachedHeadButton", "Publish branch",
                <<IF rebaseInProgress THEN "Rebase in progress"
                  ELSE "Cannot publish detached HEAD">>,
                "cloudUpload", TRUE, null, null)

publishBranchButton(isGitHub, onClick) ==
  ToolbarButton("publishBranchButton", "Publish branch",
                <<IF isGitHub THEN "Publish this branch to GitHub"
                  ELSE "Publish this branch to the remote">>,
                "cloudUpload", FALSE, <<onClick>>, null)

fetchButton(remoteName, aheadBehind, lastFetched, onClick) ==
  ToolbarButton("fetchButton", "Fetch " \o remoteName,
                renderLastFetched(lastFetched),
                "sync", FALSE, <<onClick>>,
                renderAheadBehind(null, <<aheadBehind>>))

pullButton_ignoresFlag(remoteName, aheadBehind, lastFetched, pullWithRebase, onClick) ==
  ToolbarButton("pullButton",
                IF pullWithRebase
                THEN "Pull " \o remoteName \o " with rebase"
                ELSE "Pull " \o remoteName,
                renderLastFetched(lastFetched),
                "arrowDown", FALSE, <<onClick>>,
                renderAheadBehind(null, <<aheadBehind>>))

pullButton(remoteName, aheadBehind, lastFetched, pullWithRebase, onClick) ==
  ToolbarButton("pullButton",
                IF pullWithRebase /\ enablePullWithRebase
                THEN "Pull " \o remoteName \o " with rebase"
                ELSE "Pull " \o remoteName,
                renderLastFetched(lastFetched),
                "arrowDown", FALSE, <<onClick>>,
                renderAheadBehind(null, <<aheadBehind>>))

pushButton(remoteName, aheadBehind, lastFetched, onClick) ==
  ToolbarButton("pushButton", "Push " \o remoteName,
                renderLastFetched(lastFetched),
                "arrowUp", FALSE, <<onClick>>,
                renderAheadBehind(null, <<aheadBehind>>))

(* ---------------------------- render ----------------------------------- *)

(* `undefined`: what a render that reaches no return statement yields.     *)
undefined == [builder |-> "undefined"]

(* render with the tipState checks moved before the remoteName check. *)
render_tipFirst(thisProps) ==
  LET progress == thisProps.progress
      networkActionInProgress == thisProps.networkActionInProgress
      aheadBehind == thisProps.aheadBehind
      remoteName == thisProps.remoteName
      repository == thisProps.repository
      tipState == thisProps.tipState
      rebaseInProgress == thisProps.rebaseInProgress
      lastFetched == thisProps.lastFetched
      pullWithRebase == thisProps.pullWithRebase
  IN IF progress # null
     THEN progressButton(progress[1], networkActionInProgress, aheadBehind)
     ELSE IF tipState = "Unborn"
     THEN unbornRepositoryButton
     ELSE IF tipState = "Detached"
     THEN detachedHeadButton(rebaseInProgress)
     ELSE IF remoteName = null
     THEN publishRepositoryButton("push")
     ELSE IF aheadBehind = null
     THEN publishBranchButton(repository.gitHubRepository # null, "push")
     ELSE LET ahead == aheadBehind[1].ahead
              behind == aheadBehind[1].behind
          IN IF ahead = 0 /\ behind = 0
             THEN fetchButton(remoteName[1], aheadBehind[1], lastFetched, "fetch")
             ELSE IF behind > 0
             THEN pullButton(remoteName[1], aheadBehind[1], lastFetched,
                             pullWithRebase = <<TRUE>>, "pull")
             ELSE pushButton(remoteName[1], aheadBehind[1], lastFetched, "push")

(* render with the ahead check before the behind check. *)
render_pushFirst(thisProps) ==
  LET progress == thisProps.progress
      networkActionInProgress == thisProps.networkActionInProgress
      aheadBehind == thisProps.aheadBehind
      remoteName == thisProps.remoteName
      repository == thisProps.repository
      tipState == thisProps.tipState
      rebaseInProgress == thisProps.rebaseInProgress
      lastFetched == thisProps.lastFetched
      pullWithRebase == thisProps.pullWithRebase
  IN IF progress # null
     THEN progressButton(progress[1], networkActionInProgress, aheadBehind)
     ELSE IF remoteName = null
     THEN publishRepositoryButton("push")
     ELSE IF tipState = "Unborn"
     THEN unbornRepositoryButton
     ELSE IF tipState = "Detached"
     THEN detachedHeadButton(rebaseInProgress)
     ELSE IF aheadBehind = null
     THEN publishBranchButton(repository.gitHubRepository # null, "push")
     ELSE LET ahead == aheadBehind[1].ahead
              behind == aheadBehind[1].behind
          IN IF ahead = 0 /\ behind = 0
             THEN fetchButton(remoteName[1], aheadBehind[1], lastFetched, "fetch")
             ELSE IF ahead > 0
             THEN pushButton(remoteName[1], aheadBehind[1], lastFetched, "push")
             ELSE pullButton(remoteName[1], aheadBehind[1], lastFetched,
                             pullWithRebase = <<TRUE>>, "pull")

(* render without the fetch rule: the in-sync case reaches no return. *)
render_noFetchRule(thisProps) ==
  LET progress == thisProps.progress
      networkActionInProgress == thisProps.networkActionInProgress
      aheadBehind == thisProps.aheadBehind
      remoteName == thisProps.remoteName
      repository == thisProps.repository
      tipState == thisProps.tipState
      rebaseInProgress == thisProps.rebaseInProgress
      lastFetched == thisProps.lastFetched
      pullWithRebase == thisProps.pullWithRebase
  IN IF progress # null
     THEN progressButton(progress[1], networkActionInProgress, aheadBehind)
     ELSE IF remoteName = null
     THEN publishRepositoryButton("push")
     ELSE IF tipState = "Unborn"
     THEN unbornRepositoryButton
     ELSE IF tipState = "Detached"
     THEN detachedHeadButton(rebaseInProgress)
     ELSE IF aheadBehind = null
     THEN publishBranchButton(repository.gitHubRepository # null, "push")
     ELSE LET ahead == aheadBehind[1].ahead
              behind == aheadBehind[1].behind
          IN IF ahead = 0 /\ behind = 0
             THEN undefined
             ELSE IF behind > 0
             THEN pullButton(remoteName[1], aheadBehind[1], lastFetched,
                             pullWithRebase = <<TRUE>>, "pull")
             ELSE pushButton(remoteName[1], aheadBehind[1], lastFetched, "push")

(* render with `||` for `&&` in the fetch rule. *)
render_fetchLoose(thisProps) ==
  LET progress == thisProps.progress
      networkActionInProgress == thisProps.networkActionInProgress
      aheadBehind == thisProps.aheadBehind
      remoteName == thisProps.remoteName
      repository == thisProps.repository
      tipState == thisProps.tipState
      rebaseInProgress == thisProps.rebaseInProgress
      lastFetched == thisProps.lastFetched
      pullWithRebase == thisProps.pullWithRebase
  IN IF progress # null
     THEN progressButton(progress[1], networkActionInProgress, aheadBehind)
     ELSE IF remoteName = null
     THEN publishRepositoryButton("push")
     ELSE IF tipState = "Unborn"
     THEN unbornRepositoryButton
     ELSE IF tipState = "Detached"
     THEN detachedHeadButton(rebaseInProgress)
     ELSE IF aheadBehind = null
     THEN publishBranchButton(repository.gitHubRepository # null, "push")
     ELSE LET ahead == aheadBehind[1].ahead
              behind == aheadBehind[1].behind
          IN IF ahead = 0 \/ behind = 0
             THEN fetchButton(remoteName[1], aheadBehind[1], lastFetched, "fetch")
             ELSE IF behind > 0
             THEN pullButton(remoteName[1], aheadBehind[1], lastFetched,
                             pullWithRebase = <<TRUE>>, "pull")
             ELSE pushButton(remoteName[1], aheadBehind[1], lastFetched, "push")

(* render that pulls only when behind exceeds ahead. *)
render_pullIfMoreBehind(thisProps) ==
  LET progress == thisProps.progress
      networkActionInProgress == thisProps.networkActionInProgress
      aheadBehind == thisProps.aheadBehind
      remoteName == thisProps.remoteName
      repository == thisProps.repository
      tipState == thisProps.tipState
      rebaseInProgress == thisProps.rebaseInProgress
      lastFetched == thisProps.lastFetched
      pullWithRebase == thisProps.pullWithRebase
  IN IF progress # null
     THEN progressButton(progress[1], networkActionInProgress, aheadBehind)
     ELSE IF remoteName = null
     THEN publishRepositoryButton("push")
     ELSE IF tipState = "Unborn"
     THEN unbornRepositoryButton
     ELSE IF tipState = "Detached"
     THEN detachedHeadButton(rebaseInProgress)
     ELSE IF aheadBehind = null
     THEN publishBranchButton(repository.gitHubRepository # null, "push")
     ELSE LET ahead == aheadBehind[1].ahead
              behind == aheadBehind[1].behind
          IN IF ahead = 0 /\ behind = 0
             THEN fetchButton(remoteName[1], aheadBehind[1], lastFetched, "fetch")
             ELSE IF behind > ahead
             THEN pullButton(remoteName[1], aheadBehind[1], lastFetched,
                             pullWithRebase = <<TRUE>>, "pull")
             ELSE pushButton(remoteName[1], aheadBehind[1], lastFetched, "push")

render(thisProps) ==
  LET progress == thisProps.progress
      networkActionInProgress == thisProps.networkActionInProgress
      aheadBehind == thisProps.aheadBehind
      remoteName == thisProps.remoteName
      repository == thisProps.repository
      tipState == thisProps.tipState
      rebaseInProgress == thisProps.rebaseInProgress
      lastFetched == thisProps.lastFetched
      pullWithRebase == thisProps.pullWithRebase
  IN IF progress # null
     THEN progressButton(progress[1], networkActionInProgress, aheadBehind)
     ELSE IF remoteName = null
     THEN publishRepositoryButton("push")
     ELSE IF tipState = "Unborn"
     THEN unbornRepositoryButton
     ELSE IF tipState = "Detached"
     THEN detachedHeadButton(rebaseInProgress)
     ELSE IF aheadBehind = null
     THEN publishBranchButton(repository.gitHubRepository # null, "push")
     ELSE LET ahead == aheadBehind[1].ahead
              behind == aheadBehind[1].behind
          IN IF ahead = 0 /\ behind = 0
             THEN fetchButton(remoteName[1], aheadBehind[1], lastFetched, "fetch")
             ELSE IF behind > 0
             THEN pullButton(remoteName[1], aheadBehind[1], lastFetched,
                             pullWithRebase = <<TRUE>>, "pull")
             ELSE pushButton(remoteName[1], aheadBehind[1], lastFetched, "push")

(* ---------------------------- state machine ---------------------------- *)

Init ==
  /\ props \in IPushPullButtonProps
  /\ enablePullWithRebase \in BOOLEAN
  /\ element = render(props)
  /\ dispatched = null

(* The host hands the component a new value for one prop; React renders.   *)
componentUpdate ==
  \E field \in DOMAIN props :
    \E v \in PropValues[field] :
      /\ v # props[field]
      /\ props' = [props EXCEPT ![field] = v]
      /\ element' = render(props')
      /\ UNCHANGED <<dispatched, enablePullWithRebase>>

(* The user clicks the rendered button: it calls its onClick unless it is  *)
(* disabled or has none.                                                   *)
clicks(handler) ==
  /\ ~element.disabled
  /\ element.onClick = <<handler>>

push ==
  /\ clicks("push")
  /\ dispatched' = <<[method |-> "push", repository |-> props.repository,
                      fetchType |-> null]>>
  /\ UNCHANGED <<props, element, enablePullWithRebase>>

pull ==
  /\ clicks("pull")
  /\ dispatched' = <<[method |-> "pull", repository |-> props.repository,
                      fetchType |-> null]>>
  /\ UNCHANGED <<props, element, enablePullWithRebase>>

fetch ==
  /\ clicks("fetch")
  /\ dispatched' = <<[method |-> "fetch", repository |-> props.repository,
                      fetchType |-> <<"UserInitiatedTask">>]>>
  /\ UNCHANGED <<props, element, enablePullWithRebase>>

Next == componentUpdate \/ push \/ pull \/ fetch

Spec == Init /\ [][Next]_vars

(* ---------------------------- properties ------------------------------- *)

Ahead == props.aheadBehind[1].ahead

Behind == props.aheadBehind[1].behind

Builders ==
  {"progressButton", "publishRepositoryButton", "unbornRepositoryButton",
   "detachedHeadButton", "publishBranchButton", "fetchButton", "pullButton",
   "pushButton"}

(* C1: whenever progress is present the rendered button is the in-progress *)
(* one, whatever the other props are; it is disabled, has no onClick, and  *)
(* no push, pull or fetch can be dispatched from it.                       *)
C1_ProgressFirst ==
  props.progress # null =>
    /\ element.builder = "progressButton"
    /\ element.title = props.progress[1].title
    /\ element.disabled
    /\ element.onClick = null
    /\ ~ENABLED push
    /\ ~ENABLED pull
    /\ ~ENABLED fetch

C1_Witness ==
  /\ props.progress # null
  /\ props.remoteName = null
  /\ props.tipState = "Unborn"
  /\ props.aheadBehind # null
  /\ Ahead > 0
  /\ Behind > 0
  /\ props.networkActionInProgress
  /\ element.builder = "progressButton"

(* C2: with progress absent and remoteName absent the rendered button is   *)
(* "Publish repository" bound to push, for every tipState and whether or   *)
(* not aheadBehind is present.                                             *)
C2_PublishRepository ==
  (props.progress = null /\ props.remoteName = null) =>
    /\ element.builder = "publishRepositoryButton"
    /\ element.title = "Publish repository"
    /\ ~element.disabled
    /\ element.onClick = <<"push">>

C2_Witness ==
  /\ props.progress = null
  /\ props.remoteName = null
  /\ props.tipState = "Detached"
  /\ props.aheadBehind # null
  /\ element.builder = "publishRepositoryButton"

IsUnbornButton ==
  /\ element.builder = "unbornRepositoryButton"
  /\ element.title = "Publish branch"
  /\ element.disabled
  /\ element.onClick = null

(* C3 as stated: tipState = Unborn alone yields the disabled               *)
(* "Publish branch" button.                                                *)
C3_Original == props.tipState = "Unborn" => IsUnbornButton

(* C3 amended: with progress absent and remoteName present, tipState =     *)
(* Unborn yields the disabled "Publish branch" button with no onClick,     *)
(* whatever aheadBehind is.                                                *)
C3_Unborn ==
  (props.progress = null /\ props.remoteName # null /\ props.tipState = "Unborn")
    => IsUnbornButton

C3_Witness ==
  /\ props.progress = null
  /\ props.remoteName # null
  /\ props.tipState = "Unborn"
  /\ props.aheadBehind # null
  /\ Ahead > 0
  /\ IsUnbornButton

IsPullButton ==
  /\ element.builder = "pullButton"
  /\ ~element.disabled
  /\ element.onClick = <<"pull">>

(* C4 as stated: ahead > 0 and behind > 0 alone yield the pull button.     *)
C4_Original ==
  (props.aheadBehind # null /\ Ahead > 0 /\ Behind > 0) => IsPullButton

(* C4 amended: with progress absent, remoteName present and tipState =     *)
(* Valid, ahead > 0 and behind > 0 yield the pull button, never the push   *)
(* button.                                                                 *)
C4_PullBeforePush ==
  (/\ props.progress = null
   /\ props.remoteName # null
   /\ props.tipState = "Valid"
   /\ props.aheadBehind # null
   /\ Ahead > 0
   /\ Behind > 0)
    => IsPullButton /\ element.builder # "pushButton"

C4_Witness ==
  /\ props.progress = null
  /\ props.remoteName # null
  /\ props.tipState = "Valid"
  /\ props.aheadBehind # null
  /\ Ahead > 0
  /\ Behind > 0
  /\ IsPullButton

(* C5: the rendered button has an onClick iff it is not disabled; the      *)
(* in-progress, unborn and detached buttons are disabled without onClick,  *)
(* the other five are enabled with the one handler of their rule.          *)
C5_ActionIffEnabled ==
  /\ (element.onClick # null) <=> ~element.disabled
  /\ element.builder \in {"progressButton", "unbornRepositoryButton",
                          "detachedHeadButton"}
       => element.disabled /\ element.onClick = null
  /\ element.builder \in {"publishRepositoryButton", "publishBranchButton",
                          "pushButton"}
       => ~element.disabled /\ element.onClick = <<"push">>
  /\ element.builder = "pullButton"
       => ~element.disabled /\ element.onClick = <<"pull">>
  /\ element.builder = "fetchButton"
       => ~element.disabled /\ element.onClick = <<"fetch">>

C5_Witness ==
  /\ element.builder = "detachedHeadButton"
  /\ element.disabled
  /\ dispatched # null

(* C6: a badge is rendered only when progress is absent and aheadBehind is *)
(* present and not 0/0; the in-progress and fetch buttons never have one.  *)
C6_BadgeOnlyWhenIdleAndNonZero ==
  /\ element.children # null =>
       /\ props.progress = null
       /\ props.aheadBehind # null
       /\ ~(Ahead = 0 /\ Behind = 0)
  /\ element.builder \in {"progressButton", "fetchButton"}
       => element.children = null

C6_Witness ==
  /\ props.progress # null
  /\ props.aheadBehind # null
  /\ Ahead > 0
  /\ Behind > 0
  /\ element.builder = "progressButton"
  /\ element.children = null

(* C7: every props value renders exactly one of the eight buttons; none    *)
(* renders nothing.                                                        *)
C7_Total ==
  /\ element.builder \in Builders
  /\ element # undefined
  /\ DOMAIN element = DOMAIN unbornRepositoryButton
  /\ element = render(props)

C7_Witness ==
  /\ props.progress = null
  /\ props.remoteName = null
  /\ props.aheadBehind = null
  /\ props.lastFetched = null
  /\ props.pullWithRebase = null
  /\ ~props.networkActionInProgress
  /\ ~props.rebaseInProgress
  /\ props.repository.gitHubRepository = null
  /\ element.builder \in Builders

InSync ==
  /\ props.progress = null
  /\ props.remoteName # null
  /\ props.tipState = "Valid"
  /\ props.aheadBehind # null
  /\ Ahead = 0
  /\ Behind = 0

(* C8: the fetch button is rendered exactly when progress is absent,       *)
(* remoteName present, tipState = Valid and aheadBehind is 0/0; it is      *)
(* bound to fetch, has no badge, and a fetch it dispatches is              *)
(* user-initiated.                                                         *)
C8_FetchWhenInSync ==
  /\ InSync <=> element.builder = "fetchButton"
  /\ element.builder = "fetchButton" =>
       /\ element.title = "Fetch " \o props.remoteName[1]
       /\ ~element.disabled
       /\ element.onClick = <<"fetch">>
       /\ element.children = null
       /\ ENABLED fetch
  /\ (dispatched # null /\ dispatched[1].method = "fetch")
       => dispatched[1].fetchType = <<"UserInitiatedTask">>

C8_Witness ==
  /\ InSync
  /\ element.builder = "fetchButton"
  /\ dispatched # null
  /\ dispatched[1].method = "fetch"

(* C9: the pull button's title is "Pull <remote> with rebase" iff          *)
(* pullWithRebase is true and the feature flag is on, else "Pull <remote>";*)
(* pullWithRebase changes neither the button rendered nor its onClick.     *)
C9_RebaseTitle ==
  /\ element.builder = "pullButton" =>
       /\ (props.pullWithRebase = <<TRUE>> /\ enablePullWithRebase)
            => element.title = "Pull " \o props.remoteName[1] \o " with rebase"
       /\ ~(props.pullWithRebase = <<TRUE>> /\ enablePullWithRebase)
            => element.title = "Pull " \o props.remoteName[1]
       /\ element.onClick = <<"pull">>
  /\ \A v \in PropValues.pullWithRebase :
       LET other == render([props EXCEPT !.pullWithRebase = v])
       IN /\ other.builder = element.builder
          /\ other.onClick = element.onClick

C9_Witness ==
  /\ element.builder = "pullButton"
  /\ props.pullWithRebase = <<TRUE>>
  /\ ~enablePullWithRebase
  /\ element.title = "Pull origin"

NeedsPush ==
  /\ props.progress = null
  /\ props.remoteName # null
  /\ props.tipState = "Valid"
  /\ props.aheadBehind # null
  /\ Behind = 0
  /\ Ahead > 0

(* C10: the push button is rendered exactly when progress is absent,       *)
(* remoteName present, tipState = Valid, aheadBehind present, behind = 0   *)
(* and ahead > 0; its badge is the ahead count alone.                      *)
C10_PushOnlyWhenAhead ==
  /\ NeedsPush <=> element.builder = "pushButton"
  /\ element.builder = "pushButton" =>
       /\ Ahead > 0
       /\ element.onClick = <<"push">>
       /\ element.children = <<<<[key |-> "ahead", count |-> Ahead]>>>>

C10_Witness ==
  /\ NeedsPush
  /\ Ahead = MaxCount
  /\ element.builder = "pushButton"
  /\ element.children # null
  /\ Len(element.children[1]) = 1

====
